---- MODULE Spec2Model ----
(***************************************************************************)
(* Model of the password generator: PasswordGenerator (generate,           *)
(* generate_multiple, generate_memorable, check_strength) of               *)
(* password_generator_v2.py and generate_password of Password_Generator.py.*)
(* Text is a sequence of one-character strings.  A call is one step from   *)
(* the idle state to a state holding the arguments and the outcome; the    *)
(* random source is a nondeterministic choice among its possible outcomes. *)
(***************************************************************************)
EXTENDS Integers, Sequences, FiniteSets

\* call:       the operation called and its arguments ("idle": none yet)
\* ret:        the value returned
\* err:        the exception raised ("none": the call returned)
\* unshuffled: generate's list password as it is before the shuffle
\* draws:      the number of calls made to the random source
\* rng:        the random modules drawn from
VARIABLES call, ret, err, unshuffled, draws, rng

vars == <<call, ret, err, unshuffled, draws, rng>>

(***************************************************************************)
(* Bounds of the exploration.                                              *)
(***************************************************************************)
\* randbelow(n) is explored on its MaxDraw lowest and MaxDraw highest outcomes
MaxDraw == 1
\* requested password lengths run from -1 to MaxLen
MaxLen == 4

(***************************************************************************)
(* Character data (Python's string module and PasswordGenerator.__init__). *)
(***************************************************************************)
uppercase ==
  <<"A","B","C","D","E","F","G","H","I","J","K","L","M",
    "N","O","P","Q","R","S","T","U","V","W","X","Y","Z">>

lowercase ==
  <<"a","b","c","d","e","f","g","h","i","j","k","l","m",
    "n","o","p","q","r","s","t","u","v","w","x","y","z">>

digits == <<"0","1","2","3","4","5","6","7","8","9">>

\* string.punctuation; the grave accent (U+0060), which a TLA+ string cannot
\* hold, is written "grave"
symbols ==
  <<"!","\"","#","$","%","&","'","(",")","*","+",",","-",".","/",":",
    ";","<","=",">","?","@","[","\\","]","^","_","grave","{","|","}","~">>

ambiguous == <<"i","l","1","L","o","0","O">>

\* Python's (c in s) for a character c and a string s
In(c, s) == \E i \in 1..Len(s) : s[i] = c

\* ''.join(c for c in s if c not in self.ambiguous)
NotAmbiguous(c) == ~In(c, ambiguous)

StripAmbiguous(s) == SelectSeq(s, NotAmbiguous)

(***************************************************************************)
(* The random source.                                                      *)
(***************************************************************************)
\* the outcomes of secrets.randbelow(n) that are explored
RandBelow(n) == {k \in 0..(n - 1) : k < MaxDraw \/ k >= n - MaxDraw}

\* secrets.choice(seq) = seq[randbelow(len(seq))]; no outcome on an empty seq
Choice(seq) == {seq[k + 1] : k \in RandBelow(Len(seq))}

Swap(x, i, j) == [x EXCEPT ![i] = x[j], ![j] = x[i]]

\* random.shuffle: for i in reversed(range(1, len(x))): j = randbelow(i + 1);
\* x[i], x[j] = x[j], x[i]   (i is the 0-based index)
RECURSIVE ShuffleFrom(_, _)
ShuffleFrom(x, i) ==
  IF i < 1 THEN {x}
  ELSE UNION {ShuffleFrom(Swap(x, i + 1, j + 1), i - 1) : j \in RandBelow(i + 1)}

Shuffle(x) == ShuffleFrom(x, Len(x) - 1)

\* [secrets.choice(chars) for _ in range(n)]: every list of n draws
RECURSIVE ChoiceList(_, _)
ChoiceList(chars, n) ==
  IF n <= 0 THEN {<<>>}
  ELSE {Append(p, c) : p \in ChoiceList(chars, n - 1), c \in Choice(chars)}

(***************************************************************************)
(* PasswordGenerator.generate                                              *)
(***************************************************************************)
\* the string the required character of the uppercase branch is drawn from
UpperPool(exclude_ambiguous) ==
  IF exclude_ambiguous THEN SelectSeq(uppercase, NotAmbiguous) ELSE uppercase

LowerPool(exclude_ambiguous) ==
  IF exclude_ambiguous THEN StripAmbiguous(lowercase) ELSE lowercase

\* mutant: the digits are not filtered
DigitPoolUnfiltered(exclude_ambiguous) == digits

DigitPool(exclude_ambiguous) ==
  IF exclude_ambiguous THEN StripAmbiguous(digits) ELSE digits

SymbolPool(exclude_ambiguous) == symbols

\* chars after the uppercase branch
CharsUpper(kw) ==
  IF kw.use_upper
  THEN IF kw.exclude_ambiguous THEN StripAmbiguous(<<>> \o uppercase)
       ELSE <<>> \o uppercase
  ELSE <<>>

CharsLower(kw) ==
  IF kw.use_lower THEN CharsUpper(kw) \o LowerPool(kw.exclude_ambiguous)
  ELSE CharsUpper(kw)

\* mutant: the digits join chars whether or not use_digits is set
CharsDigitsAlways(kw) == CharsLower(kw) \o DigitPool(kw.exclude_ambiguous)

CharsDigits(kw) ==
  IF kw.use_digits THEN CharsLower(kw) \o DigitPool(kw.exclude_ambiguous)
  ELSE CharsLower(kw)

\* mutant: the symbols join chars whether or not use_symbols is set
CharsSymbolsAlways(kw) == CharsDigits(kw) \o symbols

\* chars when the four branches are through
Chars(kw) ==
  IF kw.use_symbols THEN CharsDigits(kw) \o symbols ELSE CharsDigits(kw)

\* mutant: the symbols branch appends no required character
PoolsSymbolNotRequired(kw) ==
  (IF kw.use_upper THEN <<UpperPool(kw.exclude_ambiguous)>> ELSE <<>>) \o
  (IF kw.use_lower THEN <<LowerPool(kw.exclude_ambiguous)>> ELSE <<>>) \o
  (IF kw.use_digits THEN <<DigitPool(kw.exclude_ambiguous)>> ELSE <<>>)

\* the strings the required characters are drawn from, in the order of the draws
Pools(kw) ==
  (IF kw.use_upper THEN <<UpperPool(kw.exclude_ambiguous)>> ELSE <<>>) \o
  (IF kw.use_lower THEN <<LowerPool(kw.exclude_ambiguous)>> ELSE <<>>) \o
  (IF kw.use_digits THEN <<DigitPool(kw.exclude_ambiguous)>> ELSE <<>>) \o
  (IF kw.use_symbols THEN <<SymbolPool(kw.exclude_ambiguous)>> ELSE <<>>)

\* every outcome of the required draws: one character of each pool, in order
RECURSIVE RequiredFrom(_, _)
RequiredFrom(pools, n) ==
  IF n = 0 THEN {<<>>}
  ELSE {Append(r, c) : r \in RequiredFrom(pools, n - 1), c \in Choice(pools[n])}

Required(kw) == RequiredFrom(Pools(kw), Len(Pools(kw)))

\* mutant: the filler is drawn length times, not length - len(required) times
EffectiveLengthPlusRequired(length, required) ==
  IF length < Len(required) THEN Len(required) ELSE length + Len(required)

\* if length < len(required): length = len(required)
EffectiveLength(length, required) ==
  IF length < Len(required) THEN Len(required) ELSE length

\* a draw from an empty pool raises IndexError at that draw
FirstEmpty(pools) ==
  IF \E i \in 1..Len(pools) : Len(pools[i]) = 0
  THEN CHOOSE i \in 1..Len(pools) :
         Len(pools[i]) = 0 /\ \A j \in 1..(i - 1) : Len(pools[j]) > 0
  ELSE 0

\* the keyword arguments of generate
Lengths == (-1)..MaxLen

Kwargs ==
  [length : Lengths, use_upper : BOOLEAN, use_lower : BOOLEAN,
   use_digits : BOOLEAN, use_symbols : BOOLEAN, exclude_ambiguous : BOOLEAN]

Idle == [op |-> "idle"]

Init ==
  /\ call = Idle
  /\ ret = <<>>
  /\ err = "none"
  /\ unshuffled = <<>>
  /\ draws = 0
  /\ rng = {}

\* the state count successive calls of generate(**kw) end in: generate returns
\* its password, generate_multiple the list; an exception leaves no result
GenerateEnds(op, count, kw, passwords, lists, error, ndraws) ==
  /\ call' = [op |-> op, count |-> count, kw |-> kw]
  /\ ret' = IF error # "none" THEN <<>>
            ELSE IF op = "generate" THEN passwords[1] ELSE passwords
  /\ err' = error
  /\ unshuffled' = IF error # "none" THEN <<>>
                   ELSE IF op = "generate" THEN lists[1] ELSE lists
  /\ draws' = ndraws
  /\ rng' = IF ndraws > 0 THEN {"secrets"} ELSE {}

\* the body of generate, run until n passwords are there: passwords holds those
\* of the calls made so far, lists what each was before its shuffle, ndraws the
\* calls of the secrets module
RECURSIVE GenerateCalls(_, _, _, _, _, _, _)
GenerateCalls(op, count, n, kw, passwords, lists, ndraws) ==
  IF Len(passwords) >= n
  THEN GenerateEnds(op, count, kw, passwords, lists, "none", ndraws)
  ELSE IF FirstEmpty(Pools(kw)) > 0
  THEN GenerateEnds(op, count, kw, passwords, lists, "IndexError",
                    ndraws + FirstEmpty(Pools(kw)) - 1)
  ELSE IF Chars(kw) = <<>>
  THEN GenerateEnds(op, count, kw, passwords, lists, "ValueError",
                    ndraws + Len(Pools(kw)))
  ELSE \E required \in Required(kw) :
         \E filler \in ChoiceList(Chars(kw),
              EffectiveLength(kw.length, required) - Len(required)) :
           \E password \in Shuffle(required \o filler) :
             GenerateCalls(op, count, n, kw, Append(passwords, password),
                           Append(lists, required \o filler),
                           ndraws + Len(required) + Len(filler) + 1)

Generate ==
  /\ call.op = "idle"
  /\ \E kw \in Kwargs : GenerateCalls("generate", 1, 1, kw, <<>>, <<>>, 0)

(***************************************************************************)
(* PasswordGenerator.generate_multiple                                     *)
(***************************************************************************)
\* counts run from 0 to MaxCount
MaxCount == 3

\* the calls explored: those that return at most MaxLen characters in all
MultipleArgs ==
  {a \in (0..MaxCount) \X Kwargs :
     a[1] * EffectiveLength(a[2].length, Pools(a[2])) <= MaxLen}

\* mutant: range(1, count)
RangeLenFromOne(count) == IF count < 1 THEN 0 ELSE count - 1

\* len(range(count)): the number of turns of the loop
RangeLen(count) == IF count < 0 THEN 0 ELSE count

\* [self.generate(**kwargs) for _ in range(count)]
GenerateMultiple ==
  /\ call.op = "idle"
  /\ \E a \in MultipleArgs :
       GenerateCalls("generate_multiple", a[1], RangeLen(a[1]), a[2],
                     <<>>, <<>>, 0)

(***************************************************************************)
(* PasswordGenerator.generate_memorable                                    *)
(***************************************************************************)
word_list ==
  <<<<"a","l","p","h","a">>,
    <<"b","r","a","v","o">>,
    <<"c","h","a","r","l","i","e">>,
    <<"d","e","l","t","a">>,
    <<"e","c","h","o">>,
    <<"f","o","x","t","r","o","t">>,
    <<"g","o","l","f">>,
    <<"h","o","t","e","l">>,
    <<"i","n","d","i","a">>,
    <<"j","u","l","i","e","t">>,
    <<"k","i","l","o">>,
    <<"l","i","m","a">>,
    <<"m","i","k","e">>,
    <<"n","o","v","e","m","b","e","r">>,
    <<"o","s","c","a","r">>,
    <<"p","a","p","a">>,
    <<"q","u","e","b","e","c">>,
    <<"r","o","m","e","o">>,
    <<"s","i","e","r","r","a">>,
    <<"t","a","n","g","o">>,
    <<"u","n","i","f","o","r","m">>,
    <<"v","i","c","t","o","r">>,
    <<"w","h","i","s","k","e","y">>,
    <<"x","r","a","y">>,
    <<"y","a","n","k","e","e">>,
    <<"z","u","l","u">>,
    <<"c","o","f","f","e","e">>,
    <<"p","y","t","h","o","n">>,
    <<"t","i","g","e","r">>,
    <<"o","c","e","a","n">>,
    <<"m","o","u","n","t","a","i","n">>,
    <<"r","i","v","e","r">>,
    <<"f","o","r","e","s","t">>,
    <<"d","e","s","e","r","t">>,
    <<"c","l","o","u","d">>,
    <<"t","h","u","n","d","e","r">>,
    <<"l","i","g","h","t","n","i","n","g">>,
    <<"r","a","i","n","b","o","w">>,
    <<"s","u","n","s","e","t">>,
    <<"s","u","n","r","i","s","e">>,
    <<"w","i","n","t","e","r">>,
    <<"s","u","m","m","e","r">>>>

\* the position of character c in string s (c is in s)
IndexOf(c, s) == CHOOSE i \in 1..Len(s) : s[i] = c

\* str.upper and str.lower on one character
CharUpper(c) == IF In(c, lowercase) THEN uppercase[IndexOf(c, lowercase)] ELSE c

CharLower(c) == IF In(c, uppercase) THEN lowercase[IndexOf(c, uppercase)] ELSE c

\* str.capitalize: the first character in upper case, the others in lower case
Capitalize(w) ==
  [i \in 1..Len(w) |-> IF i = 1 THEN CharUpper(w[i]) ELSE CharLower(w[i])]

\* [w.capitalize() for w in selected]
CapitalizeAll(selected) == [i \in 1..Len(selected) |-> Capitalize(selected[i])]

\* mutant: the separator follows every word, the last one too
RECURSIVE JoinTrailing(_, _)
JoinTrailing(separator, selected) ==
  IF Len(selected) = 0 THEN <<>>
  ELSE selected[1] \o separator \o JoinTrailing(separator, Tail(selected))

\* separator.join(selected)
RECURSIVE Join(_, _)
Join(separator, selected) ==
  IF Len(selected) = 0 THEN <<>>
  ELSE IF Len(selected) = 1 THEN selected[1]
  ELSE selected[1] \o separator \o Join(separator, Tail(selected))

\* str(n) for an integer n >= 0
RECURSIVE Str(_)
Str(n) ==
  IF n < 10 THEN <<digits[n + 1]>>
  ELSE Str(n \div 10) \o <<digits[(n % 10) + 1]>>

\* the argument of randbelow in generate_memorable
NumberRange == 100

Passphrase(selected, separator, capitalize) ==
  Join(separator, IF capitalize THEN CapitalizeAll(selected) ELSE selected)

\* word counts run from 0 to MaxWords
MaxWords == 4

\* the separators explored
Separators == {<<"-">>, <<>>, <<"a">>, <<"_", "1">>}

MemorableEnds(a, passphrase, ndraws) ==
  /\ call' = [op |-> "generate_memorable", words |-> a[1], separator |-> a[2],
              capitalize |-> a[3], add_number |-> a[4]]
  /\ ret' = passphrase
  /\ err' = "none"
  /\ unshuffled' = <<>>
  /\ draws' = ndraws
  /\ rng' = IF ndraws > 0 THEN {"secrets"} ELSE {}

GenerateMemorable ==
  /\ call.op = "idle"
  /\ \E a \in (0..MaxWords) \X Separators \X BOOLEAN \X BOOLEAN :
       \E selected \in ChoiceList(word_list, a[1]) :
         IF a[4]
         THEN \E number \in RandBelow(NumberRange) :
                MemorableEnds(a, Passphrase(selected, a[2], a[3]) \o Str(number),
                              a[1] + 1)
         ELSE MemorableEnds(a, Passphrase(selected, a[2], a[3]), a[1])

(***************************************************************************)
(* PasswordGenerator.check_strength                                        *)
(***************************************************************************)
\* str.isupper, str.islower, str.isdigit on one ASCII character
IsUpper(c) == In(c, uppercase)

IsLower(c) == In(c, lowercase)

IsDigit(c) == In(c, digits)

IsPunctuation(c) == In(c, symbols)

\* any(c.isupper() for c in password), and the like
AnyUpper(password) == \E i \in 1..Len(password) : IsUpper(password[i])

AnyLower(password) == \E i \in 1..Len(password) : IsLower(password[i])

AnyDigit(password) == \E i \in 1..Len(password) : IsDigit(password[i])

AnyPunctuation(password) ==
  \E i \in 1..Len(password) : IsPunctuation(password[i])

Score(password) ==
    (IF Len(password) >= 8 THEN 1 ELSE 0)
  + (IF Len(password) >= 12 THEN 1 ELSE 0)
  + (IF Len(password) >= 16 THEN 1 ELSE 0)
  + (IF AnyUpper(password) THEN 1 ELSE 0)
  + (IF AnyLower(password) THEN 1 ELSE 0)
  + (IF AnyDigit(password) THEN 1 ELSE 0)
  + (IF AnyPunctuation(password) THEN 1 ELSE 0)

\* mutant: the length-12 test gives a suggestion too
FeedbackLength12(password) ==
     (IF Len(password) >= 8 THEN <<>> ELSE <<"Too short (min 8)">>)
  \o (IF Len(password) >= 12 THEN <<>> ELSE <<"Too short (min 12)">>)
  \o (IF AnyUpper(password) THEN <<>> ELSE <<"Add uppercase letters">>)
  \o (IF AnyLower(password) THEN <<>> ELSE <<"Add lowercase letters">>)
  \o (IF AnyDigit(password) THEN <<>> ELSE <<"Add numbers">>)
  \o (IF AnyPunctuation(password) THEN <<>> ELSE <<"Add symbols">>)

Feedback(password) ==
     (IF Len(password) >= 8 THEN <<>> ELSE <<"Too short (min 8)">>)
  \o (IF AnyUpper(password) THEN <<>> ELSE <<"Add uppercase letters">>)
  \o (IF AnyLower(password) THEN <<>> ELSE <<"Add lowercase letters">>)
  \o (IF AnyDigit(password) THEN <<>> ELSE <<"Add numbers">>)
  \o (IF AnyPunctuation(password) THEN <<>> ELSE <<"Add symbols">>)

Min(a, b) == IF a < b THEN a ELSE b

\* mutant: the score is returned uncapped
CheckStrengthResultUncapped(password) ==
  [score |-> Score(password), feedback |-> Feedback(password)]

\* return min(score, 5), feedback
CheckStrengthResult(password) ==
  [score |-> Min(Score(password), 5), feedback |-> Feedback(password)]

\* the passwords analysed: up to MaxHead characters of AnalysedChars followed
\* by up to MaxPad copies of one of them, and the two examples
MaxHead == 3

MaxPad == 16

AnalysedChars == {"Q", "x", "3", "!", " "}

RECURSIVE Strings(_, _)
Strings(alphabet, n) ==
  IF n = 0 THEN {<<>>}
  ELSE Strings(alphabet, n - 1) \cup
       {Append(s, c) : s \in {t \in Strings(alphabet, n - 1) : Len(t) = n - 1},
                       c \in alphabet}

Repeat(c, n) == [i \in 1..n |-> c]

ExampleLower8 == <<"a","b","c","d","e","f","g","h">>

ExampleMixed12 == <<"A","b","3","!","x","y","z","9","Q","Q","2","2">>

Analysed ==
  {h \o Repeat(c, n) : h \in Strings(AnalysedChars, MaxHead),
                       c \in AnalysedChars, n \in 0..MaxPad}
  \cup {ExampleLower8, ExampleMixed12}

CheckStrength ==
  /\ call.op = "idle"
  /\ \E password \in Analysed :
       /\ call' = [op |-> "check_strength", password |-> password]
       /\ ret' = CheckStrengthResult(password)
       /\ err' = "none"
       /\ unshuffled' = <<>>
       /\ draws' = 0
       /\ rng' = {}

(***************************************************************************)
(* generate_password of Password_Generator.py                              *)
(***************************************************************************)
\* string.ascii_letters + string.digits + string.punctuation
characters == (lowercase \o uppercase) \o digits \o symbols

\* ''.join(random.choice(characters) for _ in range(length))
GeneratePassword ==
  /\ call.op = "idle"
  /\ \E length \in Lengths :
       \E password \in ChoiceList(characters, length) :
         /\ call' = [op |-> "generate_password", length |-> length]
         /\ ret' = password
         /\ err' = "none"
         /\ unshuffled' = <<>>
         /\ draws' = Len(password)
         /\ rng' = IF Len(password) > 0 THEN {"random"} ELSE {}

\* the call is over and the generator is used again (the menu loop)
Return ==
  /\ call.op # "idle"
  /\ call' = Idle
  /\ ret' = <<>>
  /\ err' = "none"
  /\ unshuffled' = <<>>
  /\ draws' = 0
  /\ rng' = {}

NextGenerate == Generate \/ Return

SpecGenerate == Init /\ [][NextGenerate]_vars

NextMultiple == GenerateMultiple \/ Return

SpecMultiple == Init /\ [][NextMultiple]_vars

NextMemorable == GenerateMemorable \/ Return

SpecMemorable == Init /\ [][NextMemorable]_vars

NextStrength == CheckStrength \/ Return

SpecStrength == Init /\ [][NextStrength]_vars

Next ==
  \/ Generate
  \/ GenerateMultiple
  \/ GenerateMemorable
  \/ CheckStrength
  \/ GeneratePassword
  \/ Return

Spec == Init /\ [][Next]_vars

(***************************************************************************)
(* Properties of generate.                                                 *)
(***************************************************************************)
Categories == {"upper", "lower", "digit", "symbol"}

AmbiguousSet == {"i", "l", "1", "L", "o", "0", "O"}

Elements(s) == {s[i] : i \in 1..Len(s)}

BaseSet(cat) ==
  CASE cat = "upper" -> Elements(uppercase)
    [] cat = "lower" -> Elements(lowercase)
    [] cat = "digit" -> Elements(digits)
    [] cat = "symbol" -> Elements(symbols)

\* a category's base set, minus il1Lo0O when ambiguous characters are excluded
EffectiveSets ==
  [all |-> [upper |-> BaseSet("upper"), lower |-> BaseSet("lower"),
            digit |-> BaseSet("digit"), symbol |-> BaseSet("symbol")],
   clear |-> [upper |-> {c : c \in BaseSet("upper") \ AmbiguousSet},
              lower |-> {c : c \in BaseSet("lower") \ AmbiguousSet},
              digit |-> {c : c \in BaseSet("digit") \ AmbiguousSet},
              symbol |-> {c : c \in BaseSet("symbol") \ AmbiguousSet}]]

EffectiveSet(cat, kw) ==
  IF kw.exclude_ambiguous THEN EffectiveSets.clear[cat] ELSE EffectiveSets.all[cat]

Enabled(kw) ==
  {cat \in Categories :
     \/ cat = "upper" /\ kw.use_upper
     \/ cat = "lower" /\ kw.use_lower
     \/ cat = "digit" /\ kw.use_digits
     \/ cat = "symbol" /\ kw.use_symbols}

Max(a, b) == IF a > b THEN a ELSE b

\* the number of characters of password that are in set
CountIn(password, set) == Cardinality({i \in 1..Len(password) : password[i] \in set})

\* the number of places of password that hold c
Occurrences(password, c) == CountIn(password, {c})

HasEachCategory(password, kw) ==
  \A cat \in Enabled(kw) : CountIn(password, EffectiveSet(cat, kw)) >= 1

GenerateReturned == call.op = "generate" /\ err = "none"

\* the arguments with which every enabled category has a required draw, and
\* whatever that draw yields is in the category's effective set
RequiredDrawPerCategory ==
  {k : k \in {kw \in Kwargs :
     \A cat \in Enabled(kw) :
       \E i \in 1..Len(Pools(kw)) :
         /\ Pools(kw)[i] # <<>>
         /\ Elements(Pools(kw)[i]) \subseteq EffectiveSet(cat, kw)}}

\* C1: a password returned by generate holds at least one character of each
\* enabled category's effective set, whatever the draws and the shuffle yield,
\* and exactly one of each when the requested length is at most the number of
\* enabled categories.
C1_EveryEnabledCategoryPresent ==
  GenerateReturned =>
    /\ call.kw \in RequiredDrawPerCategory
    /\ LET enabled == Enabled(call.kw)
       IN  \A cat \in enabled :
             LET n == CountIn(ret, EffectiveSet(cat, call.kw))
             IN  /\ n >= 1
                 /\ call.kw.length <= Cardinality(enabled) => n = 1

\* the four categories enabled and a requested length below four
C1_Witness ==
  /\ GenerateReturned
  /\ Cardinality(Enabled(call.kw)) = 4
  /\ call.kw.length = 2
  /\ \A cat \in Categories : CountIn(ret, EffectiveSet(cat, call.kw)) = 1

\* C2: the password returned by generate is max(requested length, number of
\* enabled categories) characters long, for every requested length.
C2_LengthIsMaxOfRequestedAndCategories ==
  GenerateReturned =>
    Len(ret) = Max(call.kw.length, Cardinality(Enabled(call.kw)))

\* a negative length raised to three categories
C2_Witness ==
  /\ GenerateReturned
  /\ call.kw.length = -1
  /\ Cardinality(Enabled(call.kw)) = 3
  /\ Len(ret) = 3

\* a requested length above the number of categories is kept
C2_WitnessFiller ==
  /\ GenerateReturned
  /\ Cardinality(Enabled(call.kw)) = 2
  /\ call.kw.length = MaxLen
  /\ Len(ret) = MaxLen

\* the arguments with which no draw, required or filler, can yield an ambiguous
\* character
NoAmbiguousDraw ==
  {k : k \in {kw \in Kwargs :
     /\ Elements(Chars(kw)) \cap AmbiguousSet = {}
     /\ \A i \in 1..Len(Pools(kw)) :
          Elements(Pools(kw)[i]) \cap AmbiguousSet = {}}}

\* C3: with exclude_ambiguous, the password returned by generate holds none of
\* i, l, 1, L, o, 0, O, neither among the required nor among the filler
\* characters, and no draw of the call could have yielded one.
C3_NoAmbiguousCharacter ==
  (GenerateReturned /\ call.kw.exclude_ambiguous) =>
    /\ CountIn(ret, AmbiguousSet) = 0
    /\ CountIn(unshuffled, AmbiguousSet) = 0
    /\ call.kw \in NoAmbiguousDraw

\* letters and digits enabled, ambiguous characters excluded, filler drawn
C3_Witness ==
  /\ GenerateReturned
  /\ call.kw.exclude_ambiguous
  /\ {"upper", "lower", "digit"} \subseteq Enabled(call.kw)
  /\ Len(ret) > Cardinality(Enabled(call.kw))

\* C4: generate raises ValueError exactly when no category is enabled, and
\* then before any random draw; with a category enabled it returns a password,
\* whatever the length and exclude_ambiguous.
C4_ValueErrorIffNoCategory ==
  call.op = "generate" =>
    /\ err = "ValueError" <=> Enabled(call.kw) = {}
    /\ err = "ValueError" => draws = 0 /\ ret = <<>>
    /\ Enabled(call.kw) # {} => err = "none" /\ Len(ret) >= 1

\* no category enabled: ValueError
C4_Witness ==
  /\ call.op = "generate"
  /\ Enabled(call.kw) = {}
  /\ err = "ValueError"
  /\ draws = 0

\* one category, ambiguous characters excluded, length 0: a password
C4_WitnessReturns ==
  /\ GenerateReturned
  /\ Enabled(call.kw) = {"digit"}
  /\ call.kw.exclude_ambiguous
  /\ call.kw.length = 0
  /\ Len(ret) = 1

\* whether a is a permutation of b
IsPermutation(a, b) ==
  /\ Len(a) = Len(b)
  /\ \A i \in 1..Len(a) : Occurrences(a, a[i]) = Occurrences(b, a[i])

\* every character of password is in the effective set of an enabled category
OfEnabledCategories(password, kw) ==
  LET enabled == Enabled(kw)
  IN  \A i \in 1..Len(password) :
        \E cat \in enabled : password[i] \in EffectiveSet(cat, kw)

\* the arguments with which every filler draw yields a character of an enabled
\* category
FillerOfEnabledCategories ==
  {k : k \in {kw \in Kwargs : OfEnabledCategories(Chars(kw), kw)}}

\* C5: every character of a password returned by generate is in the effective
\* set of an enabled category, whatever the filler draws yield, and the shuffle
\* only permutes the characters drawn.
C5_OnlyEnabledCategories ==
  GenerateReturned =>
    /\ OfEnabledCategories(ret, call.kw)
    /\ call.kw \in FillerOfEnabledCategories
    /\ IsPermutation(ret, unshuffled)

\* symbols disabled, filler drawn, the shuffle moved a character
C5_Witness ==
  /\ GenerateReturned
  /\ ~call.kw.use_symbols
  /\ Cardinality(Enabled(call.kw)) = 2
  /\ Len(ret) = MaxLen
  /\ ret # unshuffled

(***************************************************************************)
(* Properties of check_strength.                                           *)
(***************************************************************************)
StrengthTests ==
  {"length-8", "length-12", "length-16",
   "has-upper", "has-lower", "has-digit", "has-symbol"}

TestHolds(test, password) ==
  CASE test = "length-8" -> Len(password) >= 8
    [] test = "length-12" -> Len(password) >= 12
    [] test = "length-16" -> Len(password) >= 16
    [] test = "has-upper" -> Elements(password) \cap BaseSet("upper") # {}
    [] test = "has-lower" -> Elements(password) \cap BaseSet("lower") # {}
    [] test = "has-digit" -> Elements(password) \cap BaseSet("digit") # {}
    [] test = "has-symbol" -> Elements(password) \cap BaseSet("symbol") # {}

RawSum(password) ==
  Cardinality({test \in StrengthTests : TestHolds(test, password)})

StrengthReturned == call.op = "check_strength" /\ err = "none"

\* C6: the score of check_strength is min(rawSum, 5), rawSum being the number
\* of the seven tests that hold; it is an integer from 0 to 5, and the
\* 12-character example with all four classes scores 5.
C6_ScoreIsCappedSum ==
  StrengthReturned =>
    /\ ret.score = (IF RawSum(call.password) < 5 THEN RawSum(call.password) ELSE 5)
    /\ ret.score \in 0..5
    /\ call.password = <<>> => ret.score = 0
    /\ call.password = ExampleMixed12 => ret.score = 5

\* all seven tests hold and the score is capped at 5
C6_Witness ==
  /\ StrengthReturned
  /\ RawSum(call.password) = 7
  /\ ret.score = 5

\* the tests that give a suggestion, in the order of the suggestions
SuggestingTests == <<"length-8", "has-upper", "has-lower", "has-digit", "has-symbol">>

\* the suggestions the specification words
SpecTexts ==
  <<"increase length to at least 8", "add uppercase letters",
    "add lowercase letters", "add digits", "add symbols">>

\* the suggestions check_strength appends
CodeTexts ==
  <<"Too short (min 8)", "Add uppercase letters", "Add lowercase letters",
    "Add numbers", "Add symbols">>

\* one text for each failing test among the five, in their order
RECURSIVE ExpectedFrom(_, _, _)
ExpectedFrom(texts, password, k) ==
  IF k > Len(SuggestingTests) THEN <<>>
  ELSE (IF TestHolds(SuggestingTests[k], password) THEN <<>> ELSE <<texts[k]>>)
       \o ExpectedFrom(texts, password, k + 1)

Expected(texts, password) == ExpectedFrom(texts, password, 1)

\* C7 as stated: the suggestions are, for each failing test among length-8,
\* has-upper, has-lower, has-digit, has-symbol and in that order, the texts
\* "increase length to at least 8", "add uppercase letters", "add lowercase
\* letters", "add digits", "add symbols".
C7_SuggestionsAsStated ==
  StrengthReturned => ret.feedback = Expected(SpecTexts, call.password)

\* C7 (amended): the suggestions hold exactly one entry for each failing test
\* among length-8, has-upper, has-lower, has-digit, has-symbol, in that order,
\* with the texts "Too short (min 8)", "Add uppercase letters", "Add lowercase
\* letters", "Add numbers", "Add symbols", and never one for the length-12 or
\* length-16 test; "abcdefgh" scores 2 with "Add uppercase letters",
\* "Add numbers", "Add symbols".
C7_SuggestionsPerFailingTest ==
  StrengthReturned =>
    /\ ret.feedback = Expected(CodeTexts, call.password)
    /\ call.password = ExampleLower8 =>
         /\ ret.score = 2
         /\ ret.feedback =
              <<"Add uppercase letters", "Add numbers", "Add symbols">>

\* "abcdefgh" analysed: three suggestions
C7_Witness ==
  /\ StrengthReturned
  /\ call.password = ExampleLower8
  /\ Len(ret.feedback) = 3

\* eight characters of every class: the length-12 and length-16 tests fail and
\* nothing is suggested
C7_WitnessNoLengthSuggestion ==
  /\ StrengthReturned
  /\ Len(call.password) \in 8..11
  /\ RawSum(call.password) = 5
  /\ ret.feedback = <<>>

(***************************************************************************)
(* Properties of generate_memorable.                                       *)
(***************************************************************************)
\* a word as it is to appear: its first letter in upper case if capitalize
WordForm(w, capitalize) ==
  IF capitalize
  THEN [i \in 1..Len(w) |->
          IF i = 1 THEN uppercase[IndexOf(w[1], lowercase)] ELSE w[i]]
  ELSE w

WordForms(capitalize) == {WordForm(w, capitalize) : w \in Elements(word_list)}

StartsWith(s, p) == Len(p) <= Len(s) /\ SubSeq(s, 1, Len(p)) = p

Drop(s, n) == SubSeq(s, n + 1, Len(s))

\* what can be left of s once k words, joined by separator, are read off its
\* front
RECURSIVE AfterWords(_, _, _, _)
AfterWords(s, k, separator, forms) ==
  IF k = 0 THEN {s}
  ELSE UNION {
         {Drop(r, Len(p)) :
            p \in {q \in {(IF k > 1 THEN separator ELSE <<>>) \o f : f \in forms} :
                     StartsWith(r, q)}} :
         r \in AfterWords(s, k - 1, separator, forms)}

\* the decimal forms of the integers of [0, 100)
DecimalForms ==
  {<<d>> : d \in Elements(digits)} \cup
  {<<d, e>> : d \in Elements(digits) \ {"0"}, e \in Elements(digits)}

MemorableReturned == call.op = "generate_memorable" /\ err = "none"

\* C8: generate_memorable returns exactly `words` words of the word list, their
\* first letter capitalized iff capitalize, joined by the separator, followed
\* by the decimal form of one integer of [0, 100) iff add_number, and nothing
\* else.
C8_PassphraseShape ==
  MemorableReturned =>
    \E rest \in AfterWords(ret, call.words, call.separator,
                           WordForms(call.capitalize)) :
      IF call.add_number THEN rest \in DecimalForms ELSE rest = <<>>

\* generate_memorable(4, "-", True, True): Word-Word-Word-Word<0-99>
C8_Witness ==
  /\ MemorableReturned
  /\ call.words = 4
  /\ call.separator = <<"-">>
  /\ call.capitalize
  /\ call.add_number
  /\ Occurrences(ret, "-") = 3
  /\ CountIn(ret, BaseSet("upper")) = 4
  /\ SubSeq(ret, Len(ret) - 1, Len(ret)) = <<"9", "9">>

(***************************************************************************)
(* Properties of generate_multiple.                                        *)
(***************************************************************************)
\* C9: for a count n >= 0 and a config with a category enabled,
\* generate_multiple returns exactly n passwords, each max(length, number of
\* enabled categories) long and holding a character of each enabled category's
\* effective set; with no category enabled and n >= 1 it raises the ValueError
\* of generate.
C9_MultipleReturnsCountPasswords ==
  call.op = "generate_multiple" =>
    /\ Enabled(call.kw) # {} =>
         /\ err = "none"
         /\ Len(ret) = call.count
         /\ \A i \in 1..Len(ret) :
              /\ Len(ret[i]) =
                   Max(call.kw.length, Cardinality(Enabled(call.kw)))
              /\ HasEachCategory(ret[i], call.kw)
    /\ (Enabled(call.kw) = {} /\ call.count >= 1) =>
         err = "ValueError" /\ draws = 0

\* two passwords of two categories, not the same
C9_Witness ==
  /\ call.op = "generate_multiple"
  /\ err = "none"
  /\ call.count = 2
  /\ Cardinality(Enabled(call.kw)) = 2
  /\ Len(ret) = 2
  /\ ret[1] # ret[2]

\* no category enabled: the first call of generate raises
C9_WitnessError ==
  /\ call.op = "generate_multiple"
  /\ Enabled(call.kw) = {}
  /\ call.count = MaxCount
  /\ err = "ValueError"

(***************************************************************************)
(* The random source of every generation path.                             *)
(***************************************************************************)
\* C10: every random selection made while producing a password or a
\* passphrase uses the cryptographically secure generator (the secrets
\* module); no generation path draws from another one.
C10_EveryDrawFromSecrets == rng \subseteq {"secrets"}

====
